---- MODULE Spec2Model ----
(***************************************************************************)
(* Training / evaluation loops of model/non_linear/thp/Main.py.            *)
(*                                                                         *)
(* The model object, the optimizer, the scheduler and the log file live    *)
(* across calls; the accumulators, the current batch and the collected     *)
(* lists are locals of the running epoch driver.  A caller invokes the     *)
(* entry points train, train_with_exo_mae and eval_epoch_mae one after the *)
(* other on the same model.                                                *)
(*                                                                         *)
(* Opaque floating point quantities (log-likelihood, squared and absolute  *)
(* time error) are kept symbolically, as the set of contributions that     *)
(* were summed into them; counts are integers; a quotient is the pair of   *)
(* its numerator and denominator.                                          *)
(***************************************************************************)
EXTENDS Integers, Sequences, FiniteSets

\* ----------------------------------------------------------------- bounds
MaxLen     == 2   \* padded sequence length L of a batch
MaxBatch   == 2   \* largest number of sequences in one batch
MaxBatches == 2   \* largest number of batches a loader yields
MaxEpoch   == 2   \* largest opt.epoch
MaxCalls   == 2   \* entry-point calls the caller makes on one model
NumTypes   == 2   \* num_types of the data set (classes 0..NumTypes-1)

\* Constants.PAD, imported at Main.py:9
PAD == 0

VARIABLES
    opt,          \* configuration: [epoch, batch_size]
    pc,           \* position of the control flow
    entry,        \* entry point the caller invoked last
    driver,       \* epoch driver whose frame is live ("none" outside one)
    calls,        \* number of entry-point calls made so far
    epoch,        \* epoch = epoch_i + 1 of the running orchestrator loop
    data_len,     \* number of batches the loader passed to the call yields
    batch_idx,    \* number of batches the for loop has fetched this epoch
    batch,        \* local: the current batch
    prediction,   \* local: output of the last forward pass of this frame
    loss,         \* local: the terms summed into the scalar `loss`
    acc,          \* local: the accumulators total_*
    lists,        \* local: pred_event, true_event, pred_time, true_time
    ret,          \* value the driver returned
    outcome,      \* "ok" or the exception that ended the run
    mode,         \* model.training: "train" or "eval"
    grad,         \* .grad of the parameters: the loss terms accumulated in it
    params,       \* number of optimizer updates applied to the parameters
    sched_steps,  \* number of scheduler.step() calls
    log           \* lines of the file opt.log

vars == <<opt, pc, entry, driver, calls, epoch, data_len, batch_idx, batch,
          prediction, loss, acc, lists, ret, outcome, mode, grad, params,
          sched_steps, log>>

frame == <<batch_idx, batch, prediction, loss, acc, lists>>

None == "none"

\* ------------------------------------------------------------ input data

\* A padded row of event types: n real events followed by PAD.
Rows == {[t \in 1..MaxLen |-> IF t <= n THEN 1 ELSE PAD] : n \in 0..MaxLen}

\* event_type tensors: B rows, 1 <= B <= MaxBatch.
EventTypes == UNION {[1..B -> Rows] : B \in 1..MaxBatch}

\* endo_mask tensors of the shape of et: a 0/1 flag per event, 0 on padding.
EndoMasks(et) ==
    {m \in [DOMAIN et -> [1..MaxLen -> {0, 1}]] :
        \A i \in DOMAIN et : \A t \in 1..MaxLen :
            et[i][t] = PAD => m[i][t] = 0}

\* Batches of the plain loaders (event_time, time_gap, event_type[, _]).
PlainBatches == {[event_type |-> et, endo_mask |-> <<>>] : et \in EventTypes}

\* Batches of the exogenous-aware loader: a fourth tensor endo_mask.
ExoBatches ==
    UNION {{[event_type |-> et, endo_mask |-> m] : m \in EndoMasks(et)} :
              et \in EventTypes}

\* batch[0].size(0) / event_time.shape[0]
Size(b) == Len(b.event_type)


\* ------------------------------------------------- tensor bookkeeping

\* Positions (row, column) of a B x MaxLen tensor.
Cells(et) == (DOMAIN et) \X (1..MaxLen)

\* event_type.ne(Constants.PAD).sum().item()
NonPad(et) == Cardinality({c \in Cells(et) : et[c[1]][c[2]] # PAD})

\* The same count with shape[1] (the padded length) in place of shape[0].
NumPredByColumns(b) == NonPad(b.event_type) - MaxLen

\* event_type.ne(PAD).sum().item() - event_time.shape[0]: the increment of
\* total_num_pred ("we do not predict the first event").
NumPred(b) == NonPad(b.event_type) - Size(b)

\* Shifted positions <<i, t>>: logits at column t predict the target at
\* column t+1; only non-PAD targets count.
Targets(et) ==
    {c \in (DOMAIN et) \X (1..(MaxLen - 1)) : et[c[1]][c[2] + 1] # PAD}

\* The targets whose event is endogenous (endo_mask = 1 at the target).
MaskedTargets(b) ==
    {c \in Targets(b.event_type) : b.endo_mask[c[1]][c[2] + 1] = 1}

\* Outputs of a forward pass on a batch of B rows: the arg-max class of
\* prediction[0][:, :-1, :] at every position (classes are 0-indexed).
Classes(et) == [DOMAIN et -> [1..(MaxLen - 1) -> 0..(NumTypes - 1)]]

\* Utils.type_loss: number of correct predictions among the non-PAD shifted
\* targets; truth = event_type[:, 1:] - 1.
TypeLossCorrect(cls, et) ==
    Cardinality({c \in Targets(et) : cls[c[1]][c[2]] = et[c[1]][c[2] + 1] - 1})

\* Utils.type_loss_exo: the same count restricted to masked targets.
TypeLossExoCorrect(cls, b) ==
    Cardinality({c \in MaskedTargets(b) :
                    cls[c[1]][c[2]] = b.event_type[c[1]][c[2] + 1] - 1})

\* Utils.time_loss / Utils.time_loss_ae on batch k: the sum of the squared /
\* absolute gap errors at the non-PAD shifted positions, kept as the set of
\* the positions summed.
TimeLoss(k, et) == {<<k, c[1], c[2]>> : c \in Targets(et)}

\* Utils.time_loss_exo on batch k: the same sum over the masked positions.
TimeLossExo(k, b) == {<<k, c[1], c[2]>> : c \in MaskedTargets(b)}

\* ------------------------------------------------------ Python arithmetic

ZeroDivisionError == "ZeroDivisionError"

\* numpy / torch division, which yields nan or inf on a zero divisor
\* instead of raising.
DivNoRaise(a, b) == [exc |-> None, num |-> a, den |-> b]

\* Python's a / b on numbers: raises ZeroDivisionError when b is 0,
\* otherwise the quotient (kept as numerator and denominator).
Div(a, b) ==
    IF b = 0 THEN [exc |-> ZeroDivisionError, num |-> a, den |-> b]
             ELSE [exc |-> None, num |-> a, den |-> b]

\* 1 - q for a quotient q of integers.
OneMinus(q) == [exc |-> q.exc, num |-> q.den - q.num, den |-> q.den]

\* A float that is nan or inf: a quotient with a zero divisor.
NanOrInf(q) == q.den = 0

\* ---------------------------------------------------------- accumulators

\* The accumulators of an epoch driver right after "total_... = 0".
\* train_epoch has no total_time_ae and eval_epoch_mae no total_time_se:
\* the unused field keeps its initial value.
ZeroAcc ==
    [total_event_ll   |-> {},
     total_time_se    |-> {},
     total_time_ae    |-> {},
     total_event_rate |-> 0,
     total_num_event  |-> 0,
     total_num_pred   |-> 0]

EmptyLists ==
    [pred_event |-> <<>>, true_event |-> <<>>,
     pred_time  |-> <<>>, true_time  |-> <<>>]

NoBatch == [event_type |-> <<>>, endo_mask |-> <<>>]

NoPrediction == [cls |-> <<>>, mode |-> None]


\* ------------------------------------------------------------ the model

\* model.train() / model.eval(): the mode flag after the call.
ModeAfterTrainCallOmitted(m) == m
ModeAfterTrainCall(m) == "train"

ModeAfterEvalCall(m) == "eval"

\* loss = event_loss + pred_loss + se / scale_time_loss: the terms of the
\* scalar that loss.backward() differentiates.
LossTermsWithAe == {"event_loss", "pred_loss", "se", "ae"}
LossTerms == {"event_loss", "pred_loss", "se"}

\* Names bound at module level of Main.py (imports and defs): what a call
\* by bare name inside the module can resolve to.
ModuleGlobals ==
    {"argparse", "np", "pickle", "time", "torch", "nn", "optim", "Constants",
     "Utils", "get_dataloader", "Transformer", "tqdm", "prepare_dataloader",
     "train_epoch", "train_with_exo_mae", "train_epoch_with_exo_mae", "train",
     "eval_epoch_mae"}

TrainingDrivers == {"train_epoch", "train_epoch_with_exo_mae"}

\* Batches the loader of a driver yields.
BatchesOf(d) == IF d = "train_epoch_with_exo_mae" THEN ExoBatches ELSE PlainBatches

\* ----------------------------------------------------------------- Init

Init ==
    /\ opt \in [epoch : 0..MaxEpoch, batch_size : 1..MaxBatch]
    /\ pc = "idle"
    /\ entry = None
    /\ driver = None
    /\ calls = 0
    /\ epoch = 0
    /\ data_len = 0
    /\ batch_idx = 0
    /\ batch = NoBatch
    /\ prediction = NoPrediction
    /\ loss = {}
    /\ acc = ZeroAcc
    /\ lists = EmptyLists
    /\ ret = <<>>
    /\ outcome = "ok"
    /\ mode = "train"
    /\ grad = {}
    /\ params = 0
    /\ sched_steps = 0
    /\ log = <<>>

\* Entering an epoch driver: fresh locals.
EnterDriver(d) ==
    /\ driver' = d
    /\ batch_idx' = 0
    /\ batch' = NoBatch
    /\ prediction' = NoPrediction
    /\ loss' = {}
    /\ acc' = ZeroAcc
    /\ lists' = EmptyLists
    /\ ret' = <<>>

\* The driver's frame is dropped when its caller has taken the result.
LeaveDriver ==
    /\ driver' = None
    /\ batch_idx' = 0
    /\ batch' = NoBatch
    /\ prediction' = NoPrediction
    /\ loss' = {}
    /\ acc' = ZeroAcc
    /\ lists' = EmptyLists
    /\ ret' = <<>>

\* ------------------------------------------------------------ the caller

\* train(model, training_data, validation_data, optimizer, scheduler, ...)
CallTrain ==
    /\ pc = "idle" /\ calls < MaxCalls
    /\ \E n \in 0..MaxBatches : data_len' = n
    /\ entry' = "train" /\ calls' = calls + 1 /\ epoch' = 0
    /\ pc' = "epoch_loop"
    /\ UNCHANGED <<opt, driver, frame, ret, outcome, mode, grad, params,
                   sched_steps, log>>

\* train_with_exo_mae(model, training_data, optimizer, scheduler, ...)
CallTrainWithExoMae ==
    /\ pc = "idle" /\ calls < MaxCalls
    /\ \E n \in 0..MaxBatches : data_len' = n
    /\ entry' = "train_with_exo_mae" /\ calls' = calls + 1 /\ epoch' = 0
    /\ pc' = "epoch_loop"
    /\ UNCHANGED <<opt, driver, frame, ret, outcome, mode, grad, params,
                   sched_steps, log>>

\* eval_epoch_mae(model, validation_data, pred_loss_func, opt) up to the
\* for loop: the lists, model.eval(), the accumulators.
CallEvalEpochMae ==
    /\ pc = "idle" /\ calls < MaxCalls
    /\ \E n \in 0..MaxBatches : data_len' = n
    /\ entry' = "eval_epoch_mae" /\ calls' = calls + 1
    /\ EnterDriver("eval_epoch_mae")
    /\ mode' = ModeAfterEvalCall(mode)
    /\ pc' = "fetch"
    /\ UNCHANGED <<opt, epoch, outcome, grad, params, sched_steps, log>>

\* ----------------------------------------------------------- train (164)

\* for epoch_i in range(opt.epoch): epoch = epoch_i + 1; train_epoch(...)
\* up to its for loop (model.train(), the accumulators).
TrainEpochLoop ==
    /\ pc = "epoch_loop" /\ entry = "train"
    /\ IF epoch < opt.epoch
         THEN /\ epoch' = epoch + 1
              /\ EnterDriver("train_epoch")
              /\ mode' = ModeAfterTrainCall(mode)
              /\ pc' = "fetch"
         ELSE /\ pc' = "idle"
              /\ UNCHANGED <<epoch, driver, frame, ret, mode>>
    /\ UNCHANGED <<opt, entry, calls, data_len, outcome, grad, params,
                   sched_steps, log>>

\* The rest of the loop body once train_epoch has returned: the call of
\* eval_epoch, the running lists, the log line, scheduler.step().  The name
\* eval_epoch is looked up in the module's globals when the call runs.
TrainAfterTrainEpoch ==
    /\ pc = "returned" /\ entry = "train"
    /\ LeaveDriver
    /\ IF "eval_epoch" \in ModuleGlobals
         THEN /\ log' = Append(log, [epoch |-> epoch, ll |-> "valid_event",
                                     acc |-> "valid_type", rmse |-> "valid_time"])
              /\ sched_steps' = sched_steps + 1
              /\ pc' = "epoch_loop"
              /\ UNCHANGED outcome
         ELSE /\ outcome' = "NameError"
              /\ pc' = "raised"
              /\ UNCHANGED <<log, sched_steps>>
    /\ UNCHANGED <<opt, entry, calls, epoch, data_len, mode, grad, params>>

\* ---------------------------------------------- train_with_exo_mae (91)

ExoEpochLoop ==
    /\ pc = "epoch_loop" /\ entry = "train_with_exo_mae"
    /\ IF epoch < opt.epoch
         THEN /\ epoch' = epoch + 1
              /\ EnterDriver("train_epoch_with_exo_mae")
              /\ mode' = ModeAfterTrainCall(mode)
              /\ pc' = "fetch"
         ELSE /\ pc' = "idle"
              /\ UNCHANGED <<epoch, driver, frame, ret, mode>>
    /\ UNCHANGED <<opt, entry, calls, data_len, outcome, grad, params,
                   sched_steps, log>>

\* print(...); scheduler.step()
ExoAfterEpoch ==
    /\ pc = "returned" /\ entry = "train_with_exo_mae"
    /\ LeaveDriver
    /\ sched_steps' = sched_steps + 1
    /\ pc' = "epoch_loop"
    /\ UNCHANGED <<opt, entry, calls, epoch, data_len, outcome, mode, grad,
                   params, log>>


\* ------------------ train_epoch (39) and train_epoch_with_exo_mae (109)

global == <<opt, entry, calls, epoch, data_len, outcome, sched_steps, log>>

\* for batch in tqdm(training_data, ...): the next batch, moved to the
\* device, or the end of the loop.
TrainFetch ==
    /\ pc = "fetch" /\ driver \in TrainingDrivers
    /\ IF batch_idx < data_len
         THEN /\ \E b \in BatchesOf(driver) : batch' = b
              /\ batch_idx' = batch_idx + 1
              /\ pc' = "zero_grad"
         ELSE /\ pc' = "reduce"
              /\ UNCHANGED <<batch, batch_idx>>
    /\ UNCHANGED <<global, driver, prediction, loss, acc, lists, ret, mode,
                   grad, params>>

\* optimizer.zero_grad(): .grad after the call.
GradAfterZeroGradOmitted(g) == g
GradAfterZeroGrad(g) == {}

\* optimizer.zero_grad()
TrainZeroGrad ==
    /\ pc = "zero_grad" /\ driver \in TrainingDrivers
    /\ grad' = GradAfterZeroGrad(grad)
    /\ pc' = "forward"
    /\ UNCHANGED <<global, driver, frame, ret, mode, params>>

\* enc_out, prediction = model(event_type, event_time)
TrainForward ==
    /\ pc = "forward" /\ driver \in TrainingDrivers
    /\ \E cls \in Classes(batch.event_type) :
          prediction' = [cls |-> cls, mode |-> mode]
    /\ pc' = "loss"
    /\ UNCHANGED <<global, driver, batch_idx, batch, loss, acc, lists, ret,
                   mode, grad, params>>

\* event_loss, pred_loss, se and their sum `loss`
TrainLoss ==
    /\ pc = "loss" /\ driver \in TrainingDrivers
    /\ loss' = LossTerms
    /\ pc' = "backward"
    /\ UNCHANGED <<global, driver, batch_idx, batch, prediction, acc, lists,
                   ret, mode, grad, params>>

\* loss.backward(): the gradient of this batch's loss is added into .grad
TrainBackward ==
    /\ pc = "backward" /\ driver \in TrainingDrivers
    /\ grad' = grad \cup {<<batch_idx, term>> : term \in loss}
    /\ pc' = "opt_step"
    /\ UNCHANGED <<global, driver, frame, ret, mode, params>>

\* optimizer.step(): one in-place update of the parameters from .grad
TrainOptStep ==
    /\ pc = "opt_step" /\ driver \in TrainingDrivers
    /\ params' = params + 1
    /\ pc' = "accumulate"
    /\ UNCHANGED <<global, driver, frame, ret, mode, grad>>

\* "note keeping" of train_epoch (79-84)
TrainEpochNotes(a, k, b, p) ==
    [a EXCEPT
       !.total_event_ll   = @ \cup {k},
       !.total_time_se    = @ \cup TimeLoss(k, b.event_type),
       !.total_event_rate = @ + TypeLossCorrect(p.cls, b.event_type),
       !.total_num_event  = @ + NonPad(b.event_type),
       !.total_num_pred   = @ + NumPred(b)]

\* "note keeping" of train_epoch_with_exo_mae (148-157); ae is
\* Utils.time_loss_ae(prediction[1], event_time), without the mask.
ExoEpochNotes(a, k, b, p) ==
    [a EXCEPT
       !.total_event_ll   = @ \cup {k},
       !.total_time_se    = @ \cup TimeLossExo(k, b),
       !.total_time_ae    = @ \cup TimeLoss(k, b.event_type),
       !.total_event_rate = @ + TypeLossExoCorrect(p.cls, b),
       !.total_num_event  = @ + NonPad(b.event_type),
       !.total_num_pred   = @ + NumPred(b)]

TrainAccumulate ==
    /\ pc = "accumulate" /\ driver \in TrainingDrivers
    /\ acc' = IF driver = "train_epoch"
                THEN TrainEpochNotes(acc, batch_idx, batch, prediction)
                ELSE ExoEpochNotes(acc, batch_idx, batch, prediction)
    /\ pc' = "fetch"
    /\ UNCHANGED <<global, driver, batch_idx, batch, prediction, loss, lists,
                   ret, mode, grad, params>>

\* rmse = np.sqrt(total_time_se / total_num_pred)
\* return total_event_ll / total_num_event, total_event_rate / total_num_pred, rmse
TrainEpochResult(a) ==
    [ll   |-> Div(a.total_event_ll, a.total_num_event),
     type |-> Div(a.total_event_rate, a.total_num_pred),
     time |-> Div(a.total_time_se, a.total_num_pred)]

\* mae = total_time_ae / total_num_pred
\* return total_event_ll / total_num_event, 1 - (total_event_rate / total_num_pred), mae
ExoEpochResult(a) ==
    [ll   |-> Div(a.total_event_ll, a.total_num_event),
     type |-> OneMinus(Div(a.total_event_rate, a.total_num_pred)),
     time |-> Div(a.total_time_ae, a.total_num_pred)]

\* A division of the return expression raised.
Raises(r) == r.ll.exc # None \/ r.type.exc # None \/ r.time.exc # None

\* The statements after the for loop: the driver returns its metrics or
\* ends with the exception of a division.
TrainReduce ==
    /\ pc = "reduce" /\ driver \in TrainingDrivers
    /\ LET r == IF driver = "train_epoch" THEN TrainEpochResult(acc)
                                          ELSE ExoEpochResult(acc)
       IN  IF Raises(r)
             THEN /\ outcome' = ZeroDivisionError
                  /\ pc' = "raised"
                  /\ ret' = <<>>
             ELSE /\ ret' = <<r>>
                  /\ pc' = "returned"
                  /\ UNCHANGED outcome
    /\ UNCHANGED <<opt, entry, calls, epoch, data_len, sched_steps, log,
                   driver, frame, mode, grad, params>>

\* ------------------------------------------------- eval_epoch_mae (202)

\* The skip test with <= in place of <: a full batch is skipped too.
EvalSkipsFullBatch(b, o) == Size(b) <= o.batch_size

\* for batch in tqdm(validation_data, ...):
\*     if batch[0].size(0) < opt.batch_size: continue
EvalSkips(b, o) == Size(b) < o.batch_size

EvalFetch ==
    /\ pc = "fetch" /\ driver = "eval_epoch_mae"
    /\ IF batch_idx < data_len
         THEN /\ \E b \in BatchesOf(driver) : batch' = b
              /\ batch_idx' = batch_idx + 1
              /\ pc' = IF EvalSkips(batch', opt) THEN "fetch" ELSE "forward"
         ELSE /\ pc' = "reduce"
              /\ UNCHANGED <<batch, batch_idx>>
    /\ UNCHANGED <<global, driver, prediction, loss, acc, lists, ret, mode,
                   grad, params>>

\* enc_out, prediction = model(event_type, event_time), under no_grad
EvalForward ==
    /\ pc = "forward" /\ driver = "eval_epoch_mae"
    /\ \E cls \in Classes(batch.event_type) :
          prediction' = [cls |-> cls, mode |-> mode]
    /\ pc' = "accumulate"
    /\ UNCHANGED <<global, driver, batch_idx, batch, loss, acc, lists, ret,
                   mode, grad, params>>

\* "compute loss" and "note keeping" of eval_epoch_mae (226-236)
EvalNotes(a, k, b, p) ==
    [a EXCEPT
       !.total_event_ll   = @ \cup {k},
       !.total_time_ae    = @ \cup TimeLoss(k, b.event_type),
       !.total_event_rate = @ + TypeLossCorrect(p.cls, b.event_type),
       !.total_num_event  = @ + NonPad(b.event_type),
       !.total_num_pred   = @ + NumPred(b)]

\* pred_event += [...] ... true_time += [...] (238-241); each list element
\* is a slice of a tensor of batch k and is kept as k.
EvalCollect(l, k) ==
    [pred_event |-> Append(l.pred_event, k),
     true_event |-> Append(l.true_event, k),
     pred_time  |-> Append(l.pred_time, k),
     true_time  |-> Append(l.true_time, k)]

EvalAccumulate ==
    /\ pc = "accumulate" /\ driver = "eval_epoch_mae"
    /\ acc' = EvalNotes(acc, batch_idx, batch, prediction)
    /\ lists' = EvalCollect(lists, batch_idx)
    /\ pc' = "fetch"
    /\ UNCHANGED <<global, driver, batch_idx, batch, prediction, loss, ret,
                   mode, grad, params>>

\* mae = total_time_ae / total_num_pred
\* return ..., total_event_ll / total_num_event,
\*        1 - (total_event_rate / total_num_pred), mae
EvalEpochResult(a) ==
    [ll   |-> Div(a.total_event_ll, a.total_num_event),
     type |-> OneMinus(Div(a.total_event_rate, a.total_num_pred)),
     time |-> Div(a.total_time_ae, a.total_num_pred)]

EvalReduce ==
    /\ pc = "reduce" /\ driver = "eval_epoch_mae"
    /\ LET r == EvalEpochResult(acc)
       IN  IF Raises(r)
             THEN /\ outcome' = ZeroDivisionError
                  /\ pc' = "raised"
                  /\ ret' = <<>>
             ELSE /\ ret' = <<r>>
                  /\ pc' = "returned"
                  /\ UNCHANGED outcome
    /\ UNCHANGED <<opt, entry, calls, epoch, data_len, sched_steps, log,
                   driver, frame, mode, grad, params>>

\* The caller takes the result of eval_epoch_mae.
EvalReturn ==
    /\ pc = "returned" /\ entry = "eval_epoch_mae"
    /\ LeaveDriver
    /\ pc' = "idle"
    /\ UNCHANGED <<opt, entry, calls, epoch, data_len, outcome, mode, grad,
                   params, sched_steps, log>>

\* ----------------------------------------------------------------- Next

Next ==
    \/ CallTrain
    \/ CallTrainWithExoMae
    \/ CallEvalEpochMae
    \/ TrainEpochLoop
    \/ TrainAfterTrainEpoch
    \/ ExoEpochLoop
    \/ ExoAfterEpoch
    \/ TrainFetch
    \/ TrainZeroGrad
    \/ TrainForward
    \/ TrainLoss
    \/ TrainBackward
    \/ TrainOptStep
    \/ TrainAccumulate
    \/ TrainReduce
    \/ EvalFetch
    \/ EvalForward
    \/ EvalAccumulate
    \/ EvalReduce
    \/ EvalReturn

Spec == Init /\ [][Next]_vars


\* ================================================================ claims

InFrame == driver # None
BetweenBatches == pc \in {"fetch", "reduce", "returned", "raised"}

\* Batches whose tensors were appended to pred_event.
Collected == {lists.pred_event[i] : i \in DOMAIN lists.pred_event}

Increasing(q) == \A i \in DOMAIN q : \A j \in DOMAIN q : i < j => q[i] < q[j]

\* Batches that were added into a symbolic sum of positions.
BatchesIn(sum) == {c[1] : c \in sum}

C1_State ==
    driver = "eval_epoch_mae" =>
      /\ lists.true_event = lists.pred_event
      /\ lists.pred_time = lists.pred_event
      /\ lists.true_time = lists.pred_event
      /\ Increasing(lists.pred_event)
      /\ Collected \subseteq 1..batch_idx
      /\ acc.total_event_ll = Collected
      /\ BatchesIn(acc.total_time_ae) \subseteq Collected
      /\ (BetweenBatches /\ batch_idx >= 1) =>
            (batch_idx \in Collected <=> Size(batch) >= opt.batch_size)
      /\ pc \in {"forward", "accumulate"} =>
            (batch_idx \notin Collected /\ Size(batch) >= opt.batch_size)

\* The step of the evaluation loop that fetches a batch.
EvalFetchesBatch == driver = "eval_epoch_mae" /\ batch_idx' = batch_idx + 1

\* C1: in eval_epoch_mae exactly the batches of size >= opt.batch_size
\* contribute: fetching a smaller batch changes no accumulator and no list,
\* every other batch is appended once to each of the four lists, in iteration
\* order, so the four lists hold the same batches, as many as were not skipped.
C1_EvalSkipRule ==
    [][ /\ C1_State'
        /\ (EvalFetchesBatch /\ Size(batch') < opt.batch_size) =>
              (acc' = acc /\ lists' = lists /\ pc' = "fetch")
        /\ (EvalFetchesBatch /\ Size(batch') >= opt.batch_size) =>
              (acc' = acc /\ lists' = lists /\ pc' = "forward")
        /\ (driver = "eval_epoch_mae" /\ pc = "accumulate") =>
              (/\ Len(lists'.pred_event) = Len(lists.pred_event) + 1
               /\ acc'.total_num_event =
                     acc.total_num_event + NonPad(batch.event_type)) ]_vars

\* One batch skipped and one collected, in either order.
C1_Witness ==
    /\ driver = "eval_epoch_mae" /\ pc = "returned"
    /\ batch_idx = 2 /\ Len(lists.pred_event) = 1

RECURSIVE RowNonPad(_, _)
\* Number of non-PAD positions among the first n of a row.
RowNonPad(row, n) ==
    IF n = 0 THEN 0
    ELSE RowNonPad(row, n - 1) + (IF row[n] # PAD THEN 1 ELSE 0)

RECURSIVE SumOverSequences(_, _)
\* Sum over the first n sequences of a batch of (non-PAD positions - 1).
SumOverSequences(et, n) ==
    IF n = 0 THEN 0
    ELSE SumOverSequences(et, n - 1) + (RowNonPad(et[n], MaxLen) - 1)

C3_ZeroDenominatorRaises ==
    /\ (InFrame /\ pc \in {"returned", "raised"}
          /\ (acc.total_num_pred = 0 \/ acc.total_num_event = 0)) =>
          (pc = "raised" /\ outcome = ZeroDivisionError /\ ret = <<>>
             /\ Len(log) = 0)
    /\ \A i \in DOMAIN ret :
          ~NanOrInf(ret[i].ll) /\ ~NanOrInf(ret[i].type) /\ ~NanOrInf(ret[i].time)

\* Every evaluation batch was skipped by the batch-size rule.
C3_Witness ==
    /\ driver = "eval_epoch_mae" /\ pc = "raised" /\ batch_idx = 2
    /\ lists.pred_event = <<>> /\ outcome = ZeroDivisionError

\* train has ended (returned, or raised something other than the
\* division error of a degenerate epoch) as the first call on the model.
TrainEnded ==
    /\ entry = "train" /\ calls = 1
    /\ \/ pc = "idle"
       \/ pc = "raised" /\ outcome # ZeroDivisionError

\* C4 (as claimed): every epoch of train runs the training driver, the
\* evaluation driver, the log write and one scheduler.step(), so when train
\* has ended the scheduler has been stepped opt.epoch times.
C4_TrainStepsSchedulerPerEpoch == TrainEnded => sched_steps = opt.epoch

\* C5 (as claimed): train runs all opt.epoch epochs and appends one line
\* per epoch, with epoch fields 1..opt.epoch in order.
C5_TrainLogsEveryEpoch ==
    TrainEnded =>
      /\ Len(log) = opt.epoch
      /\ \A i \in DOMAIN log : log[i].epoch = i

\* C6 (as claimed), for an epoch of one batch: the mark error returned by
\* train_epoch_with_exo_mae is 1 - correct / (number of masked predicted
\* positions), and the time error is the absolute error summed over the
\* masked positions divided by their number.
C6_ExoMetricsOverMaskedPositions ==
    (driver = "train_epoch_with_exo_mae" /\ pc = "returned" /\ batch_idx = 1) =>
      LET m == Cardinality(MaskedTargets(batch))
          c == TypeLossExoCorrect(prediction.cls, batch)
      IN  /\ ret[1].type.num * m = (m - c) * ret[1].type.den
          /\ ret[1].time.num = TimeLossExo(1, batch)
          /\ ret[1].time.den = m

\* Optimizer updates not accounted for by the batches of the running epoch.
UpdatesBeforeEpoch ==
    params - (IF pc \in {"zero_grad", "forward", "loss", "backward", "opt_step"}
                THEN batch_idx - 1 ELSE batch_idx)

C7_State ==
    driver \in TrainingDrivers =>
      /\ pc = "forward" => grad = {}
      /\ pc = "loss" => (grad = {} /\ prediction.mode # None)
      /\ pc = "opt_step" =>
            (loss # {} /\ grad = {<<batch_idx, term>> : term \in loss})
      /\ acc.total_event_ll =
            IF BetweenBatches THEN 1..batch_idx ELSE 1..(batch_idx - 1)

\* C7: in both training drivers a batch goes zero_grad, forward, loss,
\* backward, optimizer.step, note keeping: the gradient is empty at the
\* forward pass, the optimizer steps on the gradient of this batch's loss
\* alone, a batch is in the accumulators only once its step is done, and
\* after k batches the parameters have been updated k times.
C7_BatchStepOrder ==
    [][ /\ C7_State'
        /\ (driver \in TrainingDrivers /\ driver' = driver) =>
              UpdatesBeforeEpoch' = UpdatesBeforeEpoch
        /\ params' # params =>
              (pc = "opt_step" /\ pc' = "accumulate" /\ params' = params + 1) ]_vars

\* Two batches done in the first epoch of the first call.
C7_Witness ==
    /\ driver \in TrainingDrivers /\ pc = "fetch" /\ batch_idx = 2
    /\ calls = 1 /\ epoch = 1 /\ params = 2

\* C8 (as claimed): in every epoch driver the accumulated number of
\* correct predictions lies between 0 and total_num_pred.
C8_CorrectCountWithinNumPred ==
    InFrame =>
      (0 <= acc.total_event_rate /\ acc.total_event_rate <= acc.total_num_pred)

\* C9: every forward pass of a training driver runs with the model in
\* train mode and every forward pass of eval_epoch_mae in eval mode.
C9_ForwardInPhaseMode ==
    /\ (driver \in TrainingDrivers /\ pc # "raised") => mode = "train"
    /\ driver = "eval_epoch_mae" => mode = "eval"
    /\ (driver \in TrainingDrivers /\ prediction.mode # None) =>
          prediction.mode = "train"
    /\ (driver = "eval_epoch_mae" /\ prediction.mode # None) =>
          prediction.mode = "eval"

\* A training forward pass after an evaluation epoch on the same model.
C9_Witness ==
    /\ calls = 2 /\ opt.epoch >= 1 /\ sched_steps = 0 /\ params = 0
    /\ driver = "train_epoch_with_exo_mae" /\ pc = "loss"
    /\ prediction.mode = "train"

C10_State ==
    /\ \A g \in grad : g[2] # "ae"
    /\ driver = "train_epoch_with_exo_mae" =>
          BatchesIn(acc.total_time_ae) \subseteq
              (IF BetweenBatches THEN 1..batch_idx ELSE 1..(batch_idx - 1))

\* C10: no step of eval_epoch_mae changes the parameters or their
\* gradient; the absolute error of train_epoch_with_exo_mae is never a term
\* of a gradient and is added only after the batch's optimizer step.
C10_EvalAndAeLeaveParams ==
    [][ /\ C10_State'
        /\ (driver = "eval_epoch_mae" \/ driver' = "eval_epoch_mae") =>
              (params' = params /\ grad' = grad) ]_vars

\* An evaluation epoch that collected a batch, on a model trained before.
C10_Witness ==
    /\ driver = "eval_epoch_mae" /\ pc = "returned"
    /\ params > 0 /\ grad # {} /\ Len(lists.pred_event) >= 1

====
